---------------------------- MODULE Spec2Model ----------------------------
(***************************************************************************)
(* Model of the PDF question-answering front end: the linear-text viewer   *)
(* (src/src/components/RightPanel.jsx, the component exported last in the  *)
(* file, lines 920-1529) and its citation highlighter.                     *)
(*                                                                         *)
(* Text is a sequence of one-character strings, so that offsets, markup    *)
(* and regular-expression matches are computed as the code computes them.  *)
(***************************************************************************)
EXTENDS Integers, Sequences, FiniteSets, TLC

(***************************************************************************)
(* Strings                                                                 *)
(***************************************************************************)

\* A JavaScript string literal as a sequence of characters.
Chars(s) == [i \in 1..Len(s) |-> SubSeq(s, i, i)]

LowerLetters == Chars("abcdefghijklmnopqrstuvwxyz")
UpperLetters == Chars("ABCDEFGHIJKLMNOPQRSTUVWXYZ")
Digits == Chars("0123456789")

Range(f) == {f[i] : i \in DOMAIN f}

\* JavaScript's \s (the part of it the model's texts use).
IsSpace(c) == c \in {" ", "\n", "\t"}

\* JavaScript's \w: [A-Za-z0-9_].
WordChars == Range(LowerLetters) \cup Range(UpperLetters) \cup Range(Digits) \cup {"_"}

IsWordChar(c) == c \in WordChars

\* Case folding of the regular expression flag i.
FoldMap == [c \in Range(UpperLetters) |-> LowerLetters[CHOOSE i \in 1..26 : UpperLetters[i] = c]]

Fold(c) == IF c \in DOMAIN FoldMap THEN FoldMap[c] ELSE c

FoldText(s) == [i \in DOMAIN s |-> Fold(s[i])]

\* s.slice(from, to) with 0-based offsets, as JavaScript counts them.
Slice(s, from, to) == SubSeq(s, from + 1, to)

\* Number -> decimal digits, as a template literal prints an index or offset.
RECURSIVE ToDecimal(_)
ToDecimal(n) ==
    IF n < 10 THEN <<Digits[n + 1]>>
    ELSE ToDecimal(n \div 10) \o <<Digits[(n % 10) + 1]>>

\* A variant with the pattern /\s\s/g: every pair of whitespace characters
\* becomes one space.
RECURSIVE CollapsePairs(_)
CollapsePairs(s) ==
    IF s = <<>> THEN <<>>
    ELSE IF Len(s) > 1 /\ IsSpace(s[1]) /\ IsSpace(s[2])
         THEN <<" ">> \o CollapsePairs(Tail(Tail(s)))
         ELSE <<Head(s)>> \o CollapsePairs(Tail(s))

\* s.replace(/\s+/g, ' '): every whitespace run becomes one space.
RECURSIVE CollapseWhitespace(_)
CollapseWhitespace(s) ==
    IF s = <<>> THEN <<>>
    ELSE IF IsSpace(Head(s))
         THEN IF Len(s) > 1 /\ IsSpace(s[2])
              THEN CollapseWhitespace(Tail(s))
              ELSE <<" ">> \o CollapseWhitespace(Tail(s))
         ELSE <<Head(s)>> \o CollapseWhitespace(Tail(s))

\* s.trim()
RECURSIVE TrimStart(_)
TrimStart(s) ==
    IF s /= <<>> /\ IsSpace(Head(s)) THEN TrimStart(Tail(s)) ELSE s

RECURSIVE TrimEnd(_)
TrimEnd(s) ==
    IF s /= <<>> /\ IsSpace(s[Len(s)]) THEN TrimEnd(SubSeq(s, 1, Len(s) - 1)) ELSE s

Trim(s) == TrimEnd(TrimStart(s))

\* searchText.replace(/\s+/g, ' ').trim()
CleanSearchText(s) == Trim(CollapseWhitespace(s))

\* s.split(/\s+/): the pieces between whitespace runs ("" gives [""]).
RECURSIVE SplitWhitespace(_, _)
SplitWhitespace(s, cur) ==
    IF s = <<>> THEN <<cur>>
    ELSE IF IsSpace(Head(s))
         THEN <<cur>> \o SplitWhitespace(TrimStart(s), <<>>)
         ELSE SplitWhitespace(Tail(s), Append(cur, Head(s)))

\* cleanSearchText.split(/\s+/).filter(word => word.length > 2)
LongWords(clean) == SelectSeq(SplitWhitespace(clean, <<>>), LAMBDA w : Len(w) > 2)

\* word.replace(/[,.\-&()]/g, '')
StripPunctuation(w) == SelectSeq(w, LAMBDA c : c \notin {",", ".", "-", "&", "(", ")"})

\* cleanSearchText.replace(/\s+/g, '\\s+'): each whitespace run becomes the
\* three characters backslash, s, plus.
RECURSIVE FlexibleSearchText(_)
FlexibleSearchText(s) ==
    IF s = <<>> THEN <<>>
    ELSE IF IsSpace(Head(s))
         THEN IF Len(s) > 1 /\ IsSpace(s[2])
              THEN FlexibleSearchText(Tail(s))
              ELSE <<"\\", "s", "+">> \o FlexibleSearchText(Tail(s))
         ELSE <<Head(s)>> \o FlexibleSearchText(Tail(s))

RegExpSpecials == Range(Chars(".*+?^${}()|[]\\"))

\* escapeRegExp: a backslash before every regular expression special.
RECURSIVE escapeRegExp(_)
escapeRegExp(s) ==
    IF s = <<>> THEN <<>>
    ELSE (IF Head(s) \in RegExpSpecials THEN <<"\\", Head(s)>> ELSE <<Head(s)>>)
         \o escapeRegExp(Tail(s))

\* new RegExp(p) for a pattern every special of which is escaped: the
\* characters it matches one by one (backslash + c is the literal c).
RECURSIVE CompileLiteral(_)
CompileLiteral(p) ==
    IF p = <<>> THEN <<>>
    ELSE IF Head(p) = "\\" /\ Len(p) > 1
         THEN <<p[2]>> \o CompileLiteral(SubSeq(p, 3, Len(p)))
         ELSE <<Head(p)>> \o CompileLiteral(Tail(p))

(***************************************************************************)
(* Regular expression matching, for the three shapes applyHighlights uses  *)
(***************************************************************************)

\* A match as String.prototype.matchAll reports it: match.index and
\* match[0].length.
Match(index, length) == [index |-> index, length |-> length]

\* The literal lit (already case-folded) occurs in the case-folded text at the
\* 0-based offset pos.
LiteralAt(text, lit, pos) ==
    /\ pos + Len(lit) <= Len(text)
    /\ \A k \in 1..Len(lit) : text[pos + k] = lit[k]

\* \b at offset pos: exactly one of the characters around pos is a word
\* character.
WordBoundary(text, pos) ==
    (pos > 0 /\ IsWordChar(text[pos])) /= (pos < Len(text) /\ IsWordChar(text[pos + 1]))

\* The global scan of matchAll and of replace with flag g over the offsets
\* lo..hi: ends[p] is the end offset of the match the pattern finds at offset
\* p, or -1; from is lastIndex. A match found at p moves lastIndex to its end
\* (one further when the match is empty). The offsets are visited left to
\* right; the halving only keeps the evaluation shallow.
RECURSIVE Scan(_, _, _, _)
Scan(ends, lo, hi, from) ==
    IF lo > hi THEN <<>>
    ELSE IF lo = hi
         THEN IF lo >= from /\ ends[lo] >= 0 THEN <<Match(lo, ends[lo] - lo)>> ELSE <<>>
    ELSE LET mid == (lo + hi) \div 2
             left == Scan(ends, lo, mid, from)
             last == left[Len(left)]
             lastIndex == IF left = <<>> THEN from
                          ELSE IF last.length = 0 THEN last.index + 1
                          ELSE last.index + last.length
         IN  left \o Scan(ends, mid + 1, hi, lastIndex)

\* [...text.matchAll(new RegExp(<literal>, 'gi'))]: an empty pattern matches
\* at every offset 0..text.length.
MatchAllLiteral(text, lit) ==
    LET t == FoldText(text)
        l == FoldText(lit)
    IN  Scan([p \in 0..Len(t) |-> IF LiteralAt(t, l, p) THEN p + Len(l) ELSE -1],
             0, Len(t), 0)

\* The class [\s,.&()\-] that joins the words of the sequence pattern.
IsSeparator(c) == IsSpace(c) \/ c \in {",", ".", "&", "(", ")", "-"}

\* Length of the run of separator characters starting at offset pos.
RECURSIVE SeparatorRun(_, _)
SeparatorRun(text, pos) ==
    IF pos < Len(text) /\ IsSeparator(text[pos + 1])
    THEN 1 + SeparatorRun(text, pos + 1)
    ELSE 0

\* The pattern \bW1\b[\s,.&()\-]*\bW2\b ... \bWn\b tried at offset pos from
\* its k-th word on: the end offset of the match the backtracking matcher
\* finds first (the separator class is greedy), or -1.
RECURSIVE SequenceEnd(_, _, _, _)
RECURSIVE SequenceAfterSeparators(_, _, _, _, _)
SequenceEnd(text, words, k, pos) ==
    IF ~ ( /\ WordBoundary(text, pos)
           /\ LiteralAt(text, words[k], pos)
           /\ WordBoundary(text, pos + Len(words[k])) )
    THEN -1
    ELSE IF k = Len(words) THEN pos + Len(words[k])
    ELSE SequenceAfterSeparators(text, words, k + 1, pos + Len(words[k]),
                                 SeparatorRun(text, pos + Len(words[k])))

SequenceAfterSeparators(text, words, k, base, j) ==
    LET e == SequenceEnd(text, words, k, base + j)
    IN  IF e >= 0 THEN e
        ELSE IF j = 0 THEN -1
        ELSE SequenceAfterSeparators(text, words, k, base, j - 1)

\* The words of the pattern as the compiled expression matches them:
\* escapeRegExp(word) between two \b, read back by the RegExp constructor.
PatternWord(word) == FoldText(CompileLiteral(escapeRegExp(word)))

\* [...text.matchAll(sequenceRegex)], and the matches text.replace(wordRegex, ...)
\* replaces: flags gi.
MatchAllSequence(text, words) ==
    LET t == FoldText(text)
        ws == [i \in DOMAIN words |-> PatternWord(words[i])]
    IN  Scan([p \in 0..Len(t) |-> SequenceEnd(t, ws, 1, p)], 0, Len(t), 0)

(***************************************************************************)
(* Citations and the highlight rebuild (applyHighlights)                   *)
(***************************************************************************)

\* A field the response left out (undefined in JavaScript). No text equals
\* it: every element of a text is a single character.
Undefined == <<"undefined">>

Citation(page, quote, preview) ==
    [page |-> page, quote |-> quote, content_preview |-> preview]

\* citation.quote || citation.content_preview
SearchTextOf(citation) ==
    IF citation.quote /= Undefined /\ citation.quote /= <<>>
    THEN citation.quote
    ELSE citation.content_preview

\* The guard of the forEach body: !searchText || searchText.length < 3.
MinSearchLength == 3

IsSkipped(searchText) ==
    searchText = Undefined \/ searchText = <<>> \/ Len(searchText) < MinSearchLength

\* The markup of a phrase-level highlight.
PhraseOpenStart == Chars("<mark class=\"citation-highlight\" data-citation-id=\"")

PhraseOpenId == Chars("\" id=\"highlight-")

OpenEnd == Chars("\">")

PhraseOpenTag(index, start) ==
    PhraseOpenStart \o ToDecimal(index)
    \o PhraseOpenId \o ToDecimal(index) \o <<"-">> \o ToDecimal(start)
    \o OpenEnd

\* The markup of a word-level (fallback) highlight.
WordOpenStart == Chars("<mark class=\"citation-highlight-word\" data-citation-id=\"")

WordOpenTag(index) == WordOpenStart \o ToDecimal(index) \o OpenEnd

CloseTag == Chars("</mark>")

\* One step of matches.reverse().forEach: the match is wrapped in place.
WrapMatch(content, m, index) ==
    Slice(content, 0, m.index)
    \o PhraseOpenTag(index, m.index)
    \o Slice(content, m.index, m.index + m.length)
    \o CloseTag
    \o Slice(content, m.index + m.length, Len(content))

\* matches.reverse().forEach(...) over the matches lo..hi: the last match
\* first, each wrapped in the content the later ones left behind. The halving
\* only keeps the evaluation shallow; the order of the steps is the loop's.
RECURSIVE WrapMatches(_, _, _, _, _)
WrapMatches(content, matches, lo, hi, index) ==
    IF lo > hi THEN content
    ELSE IF lo = hi THEN WrapMatch(content, matches[lo], index)
    ELSE LET mid == (lo + hi) \div 2
             later == WrapMatches(content, matches, mid + 1, hi, index)
         IN  IF Len(later) >= 0
             THEN WrapMatches(later, matches, lo, mid, index)
             ELSE later

\* content.replace(wordRegex, '<mark ...>$&</mark>'): the result for the
\* stretch from..to of content, in which the matches lo..hi lie: every match
\* is wrapped ($& is the matched text), the rest is copied.
RECURSIVE ReplaceFrom(_, _, _, _, _, _, _)
ReplaceFrom(content, matches, lo, hi, from, to, index) ==
    IF lo > hi THEN Slice(content, from, to)
    ELSE LET mid == (lo + hi) \div 2
             m == matches[mid]
         IN  ReplaceFrom(content, matches, lo, mid - 1, from, m.index, index)
             \o WordOpenTag(index)
             \o Slice(content, m.index, m.index + m.length)
             \o CloseTag
             \o ReplaceFrom(content, matches, mid + 1, hi, m.index + m.length, to, index)

ReplaceWord(content, cleanWord, index) ==
    LET matches == MatchAllSequence(content, <<cleanWord>>)
    IN  ReplaceFrom(content, matches, 1, Len(matches), 0, Len(content), index)

\* The first tier: the cleaned quote, its whitespace rewritten to \s+, passed
\* through escapeRegExp and compiled.
ExactMatches(content, cleanSearchText) ==
    MatchAllLiteral(content, CompileLiteral(escapeRegExp(FlexibleSearchText(cleanSearchText))))

\* The second tier: the words longer than 2, punctuation removed, in sequence;
\* tried only when there is more than one such word.
SequenceMatches(content, cleanSearchText) ==
    LET words == LongWords(cleanSearchText)
    IN  IF Len(words) > 1
        THEN MatchAllSequence(content, [i \in DOMAIN words |-> StripPunctuation(words[i])])
        ELSE <<>>

\* matches as the forEach body holds them when it decides between wrapping
\* and the word fallback.
PhraseMatches(content, cleanSearchText) ==
    LET exact == ExactMatches(content, cleanSearchText)
    IN  IF Len(exact) = 0 THEN SequenceMatches(content, cleanSearchText) ELSE exact

\* The final fallback: words.forEach over the words longer than 2.
RECURSIVE WordFallback(_, _, _, _)
WordFallback(content, words, n, index) ==
    IF n > Len(words) THEN content
    ELSE LET cleanWord == StripPunctuation(words[n])
         IN  WordFallback(IF Len(cleanWord) > 2
                          THEN ReplaceWord(content, cleanWord, index)
                          ELSE content,
                          words, n + 1, index)

\* A variant of the forEach body in which the word fallback runs after the
\* phrase tiers whether or not they matched.
HighlightAllTiers(content, citation, index) ==
    LET searchText == SearchTextOf(citation)
    IN  IF IsSkipped(searchText) THEN content
        ELSE LET clean == CleanSearchText(searchText)
                 matches == PhraseMatches(content, clean)
                 wrapped == WrapMatches(content, matches, 1, Len(matches), index)
             IN  WordFallback(wrapped, LongWords(clean), 1, index)

\* The body of currentPageCitations.forEach for one citation.
HighlightCitation(content, citation, index) ==
    LET searchText == SearchTextOf(citation)
    IN  IF IsSkipped(searchText) THEN content
        ELSE LET clean == CleanSearchText(searchText)
                 matches == PhraseMatches(content, clean)
             IN  IF Len(matches) > 0
                 THEN WrapMatches(content, matches, 1, Len(matches), index)
                 ELSE WordFallback(content, LongWords(clean), 1, index)

\* citedPagesMetadata.filter(citation => citation && citation.page === currentPage)
CurrentPageCitations(cites, page) == SelectSeq(cites, LAMBDA c : c.page = page)

\* A variant of the loop in which the first citation the guard skips ends the
\* loop (a break, or a throw, where the code has return).
RECURSIVE HighlightUntilSkip(_, _, _)
HighlightUntilSkip(content, pageCites, n) ==
    IF n > Len(pageCites) THEN content
    ELSE IF IsSkipped(SearchTextOf(pageCites[n])) THEN content
    ELSE HighlightUntilSkip(HighlightCitation(content, pageCites[n], n - 1), pageCites, n + 1)

\* currentPageCitations.forEach((citation, index) => ...), index from 0.
RECURSIVE HighlightFrom(_, _, _)
HighlightFrom(content, pageCites, n) ==
    IF n > Len(pageCites) THEN content
    ELSE HighlightFrom(HighlightCitation(content, pageCites[n], n - 1), pageCites, n + 1)

\* The value applyHighlights passes to setHighlightedText.
HighlightedContent(text, cites, page) ==
    IF text = <<>> THEN <<>>
    ELSE LET pageCites == CurrentPageCitations(cites, page)
         IN  IF Len(pageCites) = 0 THEN text
             ELSE HighlightFrom(text, pageCites, 1)

(***************************************************************************)
(* Text extraction (extractPageText, the linearization of the text items)  *)
(***************************************************************************)

\* A text item of page.getTextContent(): str, transform (only its elements 4
\* and 5, the origin, are read) and width.
Item(str, x, y, width) == [str |-> Chars(str), transform |-> <<x, y>>, width |-> width]

Abs(n) == IF n < 0 THEN -n ELSE n

\* item.transform ? item.transform[5] : 0, and the same for element 4.
ItemY(item) == IF item.transform /= <<>> THEN item.transform[2] ELSE 0

ItemX(item) == IF item.transform /= <<>> THEN item.transform[1] ELSE 0

\* The space appended after item n when the next item is on the same line and
\* far enough to the right.
GapAfter(items, n) ==
    IF /\ n < Len(items)
       /\ items[n + 1].transform /= <<>>
       /\ Abs(ItemY(items[n]) - items[n + 1].transform[2]) < 2
       /\ items[n + 1].transform[1] - (ItemX(items[n]) + items[n].width) > 5
       /\ items[n].str[Len(items[n].str)] /= " "
    THEN <<" ">> ELSE <<>>

\* textContent.items.forEach(...): extractedText after the items n.. were
\* visited; lastY is <<>> for null.
RECURSIVE LinearizeFrom(_, _, _)
LinearizeFrom(items, n, lastY) ==
    IF n > Len(items) THEN <<>>
    ELSE IF items[n].str = <<>> THEN LinearizeFrom(items, n + 1, lastY)
    ELSE (IF lastY /= <<>> /\ Abs(lastY[1] - ItemY(items[n])) > 5 THEN <<"\n">> ELSE <<>>)
         \o items[n].str
         \o GapAfter(items, n)
         \o LinearizeFrom(items, n + 1, <<ItemY(items[n])>>)

\* The value extractPageText passes to setPageText when the page was read
\* (items: textContent.items).
ExtractedText(items) ==
    IF Len(items) = 0 THEN <<>> ELSE Trim(LinearizeFrom(items, 1, <<>>))

(***************************************************************************)
(* The documents and the answers the viewer is exercised with              *)
(***************************************************************************)

\* The files a user can upload.
Files == {1, 2}

\* page.getTextContent().items of each page. File 1 has two pages, file 2 one.
PageItems ==
    [file \in Files |->
        IF file = 1
        THEN << <<Item("The cat", 0, 100, 40), Item("sat", 50, 100, 15),
                  Item("down.", 0, 80, 30)>>,
                <<Item("A dog", 0, 100, 30), Item(" sat.", 30, 100, 20)>> >>
        ELSE << <<Item("Dog and cat", 0, 100, 60)>> >>]

\* pdfDoc.numPages
NumPages(file) == Len(PageItems[file])

\* getPage rejects: the document has no such page.
PageFails(file, page) == page \notin 1..NumPages(file)

\* What extractPageText makes of each page.
PageTexts ==
    [file \in Files |-> [page \in 1..NumPages(file) |-> ExtractedText(PageItems[file][page])]]

\* cited_pages_metadata of the answers the backend gives: the first citation
\* is on page 2 (a page file 2 does not have), the others on page 1.
ResponseLists ==
    { << Citation(2, Chars("dog"), Undefined), Citation(1, Chars("cat"), Undefined),
         Citation(1, Chars("sat"), Undefined) >> }

\* The citations of the answers the highlighter is examined with: single
\* words, phrases that overlap in the text of page 1 of file 1, a word of the
\* markup, a padded one-letter quote, a quote of two letters, a citation with
\* only a content_preview, one with neither field, one with a word the pages
\* do not have, and a citation of page 2.
CitationPool ==
    { Citation(1, Chars("cat"), Undefined),
      Citation(1, Chars("The cat"), Undefined),
      Citation(1, Chars("cat sat"), Undefined),
      Citation(1, Chars("class"), Undefined),
      Citation(1, Chars(" e "), Undefined),
      Citation(1, Chars("at"), Undefined),
      Citation(1, Undefined, Chars("sat down")),
      Citation(1, Undefined, Undefined),
      Citation(1, Chars("zebra cat"), Undefined),
      Citation(2, Chars("dog"), Undefined) }

\* Citations whose quote is a phrase of a page with other whitespace between
\* its words: two spaces where page 1 of file 1 has a newline, and two spaces
\* where page 2 of file 1 has one, after a word of one letter.
PhrasePool ==
    { Citation(1, Chars("sat  down"), Undefined),
      Citation(2, Chars("A  dog sat"), Undefined) }

\* A citation whose quote has two words, each of three punctuation characters
\* that the second tier strips: both words of its pattern are empty.
PunctuationPool ==
    { Citation(1, Chars("... ---"), Undefined) }

(***************************************************************************)
(* The viewer (RightPanel) as a state machine                              *)
(***************************************************************************)

\* Bounds of the model.
MaxLoads == 2      \* loadPDF calls in flight at once
MaxDocs == 2       \* documents getDocument hands out in one run
MaxExtracts == 2   \* extractPageText calls in flight at once
MaxTimers == 1     \* scrollToCitation timeouts pending at once
MaxRuns == 3       \* runs of applyHighlights that are told apart (then: "or more")
MaxCitations == 2  \* citations in an answer whose highlighting is examined

VARIABLES
    pdfFile,              \* prop: the uploaded file, 0 for null
    citedPagesMetadata,   \* prop: the citation list of the last answer
    pdf,                  \* state: the document handle, 0 for null
    pdfRef,               \* pdfRef.current, 0 for null
    currentPage,          \* state
    totalPages,           \* state
    loading,              \* state
    error,                \* state: "none" for null, else which operation failed
    pageText,             \* state
    highlightedText,      \* state
    documents,            \* the documents getDocument handed out: file, destroyed
    loads,                \* loadPDF calls waiting for arrayBuffer / getDocument
    extracts,             \* extractPageText calls waiting for getPage / getTextContent
    timers,               \* pending setTimeout callbacks of scrollToCitation
    textSource,           \* history: the document and page pageText was read from
    hlRun,                \* history: the last run of applyHighlights
    searchText,           \* applyHighlights: the text one citation is searched by
    cleanSearchText,      \* applyHighlights: searchText cleaned, Undefined before
    items,                \* extractPageText: textContent.items
    extractedText,        \* extractPageText: extractedText.trim(), Undefined before
    textElements,         \* overlay viewer: the textContent of the .text-selection-item runs
    overlays,             \* overlay viewer: the runs that have a .highlight-overlay
    selection,            \* window.getSelection().toString(), NoRange for rangeCount 0
    hasClipboard,         \* navigator.clipboard && navigator.clipboard.writeText
    writes,               \* navigator.clipboard.writeText calls not settled yet
    feedbacks,            \* the feedback elements showCopyFeedback has in the document
    failures,             \* history: the texts whose write was impossible or rejected
    fallbackCalls,        \* history: the arguments of the fallbackCopyText calls
    message,              \* App state: the question being typed
    answer,               \* App state
    caseId,               \* App state, 0 for null
    storedCaseId,         \* localStorage's case_id, 0 when it has none
    docId,                \* App state, 0 for null
    isLoading,            \* App state
    ask,                  \* the handleSend call waiting for its response, NoAsk for none
    response              \* history: how the last handleSend ended (res.status, 0
                          \* without a response), NoResponse before

vars == <<pdfFile, citedPagesMetadata, pdf, pdfRef, currentPage, totalPages, loading,
          error, pageText, highlightedText, documents, loads, extracts, timers,
          textSource, hlRun, searchText, cleanSearchText, items, extractedText,
          textElements, overlays, selection, hasClipboard, writes, feedbacks, failures, fallbackCalls,
          message, answer, caseId, storedCaseId, docId, isLoading, ask, response>>

\* The props, the state and the pending work of the viewer.
rightPanel == <<pdfFile, citedPagesMetadata, pdf, pdfRef, currentPage, totalPages, loading,
                error, pageText, highlightedText, documents, loads, extracts, timers,
                textSource, hlRun>>

\* The text layer of the overlay viewer and its highlight overlays.
overlay == <<textElements, overlays>>

\* The state of the copy functions.
copying == <<selection, hasClipboard, writes, feedbacks, failures, fallbackCalls>>

\* The state of App apart from the props it hands to the viewer.
app == <<message, answer, caseId, storedCaseId, docId, isLoading, ask, response>>

\* The variables the loading, navigation and highlighting handlers leave
\* alone: the inputs and results of the functions that are also examined on
\* their own, the state of the copy functions and the state of App.
outside == <<searchText, cleanSearchText, items, extractedText, overlay, copying, app>>

\* selection.rangeCount is 0.
NoRange == Undefined

\* Nothing is selected and nothing was copied.
CopyIdle ==
    /\ selection = NoRange
    /\ hasClipboard = FALSE
    /\ writes = {}
    /\ feedbacks = 0
    /\ failures = <<>>
    /\ fallbackCalls = <<>>

\* A variant of the request body that carries the file whenever one is held.
FormDataWithFile(case, file) == [case_id |-> case, file |-> file]

\* The document reference in the FormData of a request: case_id when caseId
\* is set, else the file; 0 for a field that is not appended.
FormData(case, file) == [case_id |-> case, file |-> IF case /= 0 THEN 0 ELSE file]

NoAsk == [question |-> "", caseId |-> 0, form |-> FormData(0, 0)]

NoResponse == [kind |-> "none", status |-> 0, cited |-> <<>>]

\* App after its first render without a stored case_id.
AppIdle ==
    /\ message = ""
    /\ answer = ""
    /\ caseId = 0
    /\ storedCaseId = 0
    /\ docId = 0
    /\ isLoading = FALSE
    /\ ask = NoAsk
    /\ response = NoResponse

\* The overlay viewer has no text layer.
OverlayIdle ==
    /\ textElements = <<>>
    /\ overlays = {}

\* No function is being examined on its own.
OutsideIdle ==
    /\ searchText = <<>>
    /\ cleanSearchText = Undefined
    /\ items = <<>>
    /\ extractedText = Undefined
    /\ OverlayIdle
    /\ CopyIdle
    /\ AppIdle

\* textSource: the page whose text pageText holds, 0 when it holds none.
NoSource == 0

\* hlRun: how often applyHighlights ran (counted up to MaxRuns), the
\* currentPage of its last run and the page the pageText of that run was read
\* from.
NoRun == [runs |-> 0, page |-> 0, source |-> NoSource]

\* The state after the first render: useState's initial values, the effects
\* of the mount (pdfFile is null, pdf is null, pageText is empty) change nothing.
InitRightPanel ==
    /\ pdfFile = 0
    /\ citedPagesMetadata = <<>>
    /\ pdf = 0
    /\ pdfRef = 0
    /\ currentPage = 1
    /\ totalPages = 0
    /\ loading = FALSE
    /\ error = "none"
    /\ pageText = <<>>
    /\ highlightedText = <<>>
    /\ documents = <<>>
    /\ loads = {}
    /\ extracts = {}
    /\ timers = {}
    /\ textSource = NoSource
    /\ hlRun = NoRun

Init == InitRightPanel /\ OutsideIdle

\* cleanup(): the document in pdfRef.current is destroyed and the ref cleared.
DocumentsAfterCleanup(docs, ref) ==
    IF ref /= 0 THEN [docs EXCEPT ![ref].destroyed = TRUE] ELSE docs

\* The documents obtained from getDocument and not destroyed.
OpenDocuments == {d \in DOMAIN documents : ~documents[d].destroyed}

\* A free slot for an operation in flight.
FreeSlot(ops, max) == CHOOSE n \in 1..max : \A o \in ops : o.slot /= n

\* A variant of the highlight effect that marks up the markup of the last run
\* (highlightedContent starting from highlightedText) instead of pageText.
AccumulatingAfterEffect(fires, text, cites, page) ==
    IF fires /\ text /= <<>>
    THEN HighlightedContent(IF highlightedText = <<>> THEN text ELSE highlightedText,
                            cites, page)
    ELSE highlightedText

\* The effect on [citedPagesMetadata, currentPage, pageText]: applyHighlights
\* runs when a dependency changed and pageText is not empty.
\* fires: a dependency changed; text, cites, page: the values of the new render.
HighlightedAfterEffect(fires, text, cites, page) ==
    IF fires /\ text /= <<>> THEN HighlightedContent(text, cites, page) ELSE highlightedText

HlRunAfterEffect(fires, text, cites, page, source) ==
    IF fires /\ text /= <<>>
    THEN [runs |-> IF hlRun.runs < MaxRuns THEN hlRun.runs + 1 ELSE MaxRuns,
          page |-> page, source |-> source]
    ELSE hlRun

\* The effect on [pdf, currentPage]: extractPageText(currentPage) starts when a
\* dependency changed, and it goes on past its first line when pdf is set.
\* (currentPage 0 is falsy.)
ExtractStarts(fires, doc, page) == fires /\ doc /= 0 /\ page /= 0

ExtractsAfterEffect(fires, doc, page) ==
    IF ExtractStarts(fires, doc, page)
    THEN extracts \cup {[slot |-> FreeSlot(extracts, MaxExtracts), doc |-> doc, page |-> page]}
    ELSE extracts

CanStartExtract == Cardinality(extracts) < MaxExtracts

CanStartLoad ==
    /\ Cardinality(loads) < MaxLoads
    /\ Len(documents) + Cardinality(loads) < MaxDocs

\* loadPDF(file) up to its first await: setLoading(true), setError(null),
\* cleanup(), and the read of the file is under way.
StartLoad(file) ==
    /\ loading' = TRUE
    /\ error' = "none"
    /\ documents' = DocumentsAfterCleanup(documents, pdfRef)
    /\ pdfRef' = 0
    /\ loads' = loads \cup {[slot |-> FreeSlot(loads, MaxLoads), file |-> file]}

\* App.handleUpload(file): pdfFile and an empty citation list arrive as props.
\* The pdfFile effect runs the previous cleanup and loadPDF(file); the
\* highlight effect sees a new citation list.
FileReplaced(file) ==
    /\ CanStartLoad
    /\ pdfFile' = file
    /\ citedPagesMetadata' = <<>>
    /\ StartLoad(file)
    /\ highlightedText' = HighlightedAfterEffect(TRUE, pageText, <<>>, currentPage)
    /\ hlRun' = HlRunAfterEffect(TRUE, pageText, <<>>, currentPage, textSource)
    /\ UNCHANGED <<pdf, currentPage, totalPages, pageText, extracts, timers, textSource>>

\* App.handleUpload(file) as the viewer sees it.
Upload(file) ==
    /\ FileReplaced(file)
    /\ UNCHANGED outside

\* App.handleNewSession: pdfFile becomes null and the citation list empty. In
\* the render with the new props the highlight effect sees a new citation
\* list and runs on the pageText and currentPage of that render; the pdfFile
\* effect (when pdfFile changed) runs cleanup and resets the state, and the
\* render after it starts nothing (pdf is null, pageText is empty).
FileCleared ==
    /\ pdfFile' = 0
    /\ citedPagesMetadata' = <<>>
    /\ highlightedText' = HighlightedAfterEffect(TRUE, pageText, <<>>, currentPage)
    /\ hlRun' = HlRunAfterEffect(TRUE, pageText, <<>>, currentPage, textSource)
    /\ IF pdfFile /= 0
       THEN /\ documents' = DocumentsAfterCleanup(documents, pdfRef)
            /\ pdfRef' = 0
            /\ pdf' = 0
            /\ currentPage' = 1
            /\ totalPages' = 0
            /\ error' = "none"
            /\ pageText' = <<>>
            /\ textSource' = NoSource
       ELSE UNCHANGED <<documents, pdfRef, pdf, currentPage, totalPages, error,
                        pageText, textSource>>
    /\ UNCHANGED <<loading, loads, extracts, timers>>

\* App.handleNewSession as the viewer sees it.
NewSession ==
    /\ FileCleared
    /\ UNCHANGED outside

\* The Retry button of the error view: loadPDF(pdfFile).
Retry ==
    /\ error /= "none"
    /\ pdfFile /= 0
    /\ CanStartLoad
    /\ StartLoad(pdfFile)
    /\ UNCHANGED <<outside, pdfFile, citedPagesMetadata, pdf, currentPage, totalPages, pageText,
                   highlightedText, extracts, timers, textSource, hlRun>>

\* loadPDF after its awaits, the document loaded: pdfRef.current, setPdf,
\* setTotalPages, setCurrentPage(1), setLoading(false). The new render runs
\* the extract effect (pdf changed) and the highlight effect (when currentPage
\* changed).
LoadSucceeds(load) ==
    LET doc == Len(documents) + 1
    IN  /\ load \in loads
        /\ CanStartExtract
        /\ loads' = loads \ {load}
        /\ documents' = Append(documents, [file |-> load.file, destroyed |-> FALSE])
        /\ pdfRef' = doc
        /\ pdf' = doc
        /\ totalPages' = NumPages(load.file)
        /\ currentPage' = 1
        /\ loading' = ExtractStarts(TRUE, doc, 1)
        /\ extracts' = ExtractsAfterEffect(TRUE, doc, 1)
        /\ highlightedText' =
               HighlightedAfterEffect(currentPage /= 1, pageText, citedPagesMetadata, 1)
        /\ hlRun' = HlRunAfterEffect(currentPage /= 1, pageText, citedPagesMetadata, 1,
                                     textSource)
        /\ UNCHANGED <<outside, pdfFile, citedPagesMetadata, error, pageText, timers, textSource>>

\* loadPDF after its awaits, the read or getDocument rejected: the catch
\* block, then setLoading(false).
LoadFails(load) ==
    /\ load \in loads
    /\ loads' = loads \ {load}
    /\ error' = "load"
    /\ loading' = FALSE
    /\ UNCHANGED <<outside, pdfFile, citedPagesMetadata, pdf, pdfRef, currentPage, totalPages,
                   pageText, highlightedText, documents, extracts, timers, textSource,
                   hlRun>>

\* setCurrentPage(page) and the render after it: the extract effect and the
\* highlight effect run when currentPage changed.
SetCurrentPage(page) ==
    /\ ExtractStarts(page /= currentPage, pdf, page) => CanStartExtract
    /\ currentPage' = page
    /\ loading' = (loading \/ ExtractStarts(page /= currentPage, pdf, page))
    /\ extracts' = ExtractsAfterEffect(page /= currentPage, pdf, page)
    /\ highlightedText' =
           HighlightedAfterEffect(page /= currentPage, pageText, citedPagesMetadata, page)
    /\ hlRun' = HlRunAfterEffect(page /= currentPage, pageText, citedPagesMetadata, page,
                                 textSource)

\* handlePrevPage: the button, or Alt + ArrowLeft.
handlePrevPage ==
    /\ currentPage > 1
    /\ SetCurrentPage(currentPage - 1)
    /\ UNCHANGED <<outside, pdfFile, citedPagesMetadata, pdf, pdfRef, totalPages, error, pageText,
                   documents, loads, timers, textSource>>

\* handleNextPage: the button, or Alt + ArrowRight.
handleNextPage ==
    /\ currentPage < totalPages
    /\ SetCurrentPage(currentPage + 1)
    /\ UNCHANGED <<outside, pdfFile, citedPagesMetadata, pdf, pdfRef, totalPages, error, pageText,
                   documents, loads, timers, textSource>>

\* goToPage(pageNum) of the imperative handle.
goToPage(pageNum) ==
    /\ pageNum >= 1 /\ pageNum <= totalPages
    /\ pageNum /= currentPage
    /\ SetCurrentPage(pageNum)
    /\ UNCHANGED <<outside, pdfFile, citedPagesMetadata, pdf, pdfRef, totalPages, error, pageText,
                   documents, loads, timers, textSource>>

\* scrollToCitation(citation), citation the object at position pos of the
\* list: the page is switched when it differs, and the lookup is left to a
\* timeout of 300 ms, whose callback keeps the list of this render.
scrollToCitation(pos) ==
    /\ pos \in DOMAIN citedPagesMetadata
    /\ Cardinality(timers) < MaxTimers
    /\ SetCurrentPage(citedPagesMetadata[pos].page)
    /\ timers' = timers \cup {[list |-> citedPagesMetadata, pos |-> pos,
                               switched |-> citedPagesMetadata[pos].page /= currentPage]}
    /\ UNCHANGED <<outside, pdfFile, citedPagesMetadata, pdf, pdfRef, totalPages, error, pageText,
                   documents, loads, textSource>>

\* setCitedPagesMetadata(list) as the viewer sees it: a new citation list in
\* its props, and the highlight effect runs.
CitationsReplaced(list) ==
    /\ citedPagesMetadata' = list
    /\ highlightedText' = HighlightedAfterEffect(TRUE, pageText, list, currentPage)
    /\ hlRun' = HlRunAfterEffect(TRUE, pageText, list, currentPage, textSource)
    /\ UNCHANGED <<pdfFile, pdf, pdfRef, currentPage, totalPages, loading, error, pageText,
                   documents, loads, extracts, timers, textSource>>

\* App.handleSend got its answer: setCitedPagesMetadata(list).
ReceiveCitations(list) ==
    /\ CitationsReplaced(list)
    /\ UNCHANGED outside

\* extractPageText(pageNum) after its awaits, the page read: setPageText (of
\* the linearized text, or of '' when the page has no items) and
\* setLoading(false). The highlight effect runs when pageText changed.
ExtractSucceeds(extract) ==
    LET file == documents[extract.doc].file
        text == PageTexts[file][extract.page]
        source == IF text = <<>> THEN NoSource ELSE extract.page
    IN  /\ extract \in extracts
        /\ ~documents[extract.doc].destroyed
        /\ ~PageFails(file, extract.page)
        /\ extracts' = extracts \ {extract}
        /\ pageText' = text
        /\ textSource' = source
        /\ loading' = FALSE
        /\ highlightedText' =
               HighlightedAfterEffect(text /= pageText, text, citedPagesMetadata, currentPage)
        /\ hlRun' = HlRunAfterEffect(text /= pageText, text, citedPagesMetadata, currentPage,
                                     source)
        /\ UNCHANGED <<outside, pdfFile, citedPagesMetadata, pdf, pdfRef, currentPage, totalPages,
                       error, documents, loads, timers>>

\* extractPageText(pageNum) after its awaits, getPage or getTextContent
\* rejected (the document was destroyed, the page does not exist or cannot be
\* read): setError, setPageText(''), setLoading(false).
ExtractFails(extract) ==
    /\ extract \in extracts
    /\ \/ documents[extract.doc].destroyed
       \/ PageFails(documents[extract.doc].file, extract.page)
    /\ extracts' = extracts \ {extract}
    /\ error' = "extract"
    /\ pageText' = <<>>
    /\ textSource' = NoSource
    /\ loading' = FALSE
    /\ UNCHANGED <<outside, pdfFile, citedPagesMetadata, pdf, pdfRef, currentPage, totalPages,
                   highlightedText, documents, loads, timers, hlRun>>

\* citedPagesMetadata.indexOf(citation) for the object at position pos of the
\* list: indexOf compares object identity, and an object is at one position.
CitationIndex(list, pos) == IF pos \in DOMAIN list THEN pos - 1 ELSE -1

\* The text container is rendered: a file is set, no error view, no spinner,
\* and pageText is not empty.
TextShown == pdfFile /= 0 /\ error = "none" /\ ~loading /\ pageText /= <<>>

\* The offsets of a text in a text, case kept.
Occurrences(text, lit) ==
    {p \in 0..(Len(text) - Len(lit)) : SubSeq(text, p + 1, p + Len(lit)) = lit}

\* document.querySelectorAll('[data-citation-id="<index>"]'): the marks of the
\* rendered highlightedText that carry this id (their offsets).
ElementsWithCitationId(index) ==
    IF TextShown /\ index >= 0
    THEN Occurrences(highlightedText,
                     Chars(" data-citation-id=\"") \o ToDecimal(index) \o <<"\"">>)
    ELSE {}

\* The position in the whole list of the citation whose forEach index on the
\* displayed page is index (0 when there is none): the citation that wrote
\* the marks with this data-citation-id.
ProducerOf(index) ==
    LET onPage == {i \in DOMAIN citedPagesMetadata :
                       citedPagesMetadata[i].page = currentPage}
        hits == {i \in onPage : Cardinality({j \in onPage : j < i}) = index}
    IN  IF hits = {} THEN 0 ELSE CHOOSE i \in hits : TRUE

\* The citation at position pos of the list is on the displayed page and the
\* rebuild of the displayed text marked a passage for it.
IsHighlighted(pos) ==
    /\ pos \in DOMAIN citedPagesMetadata
    /\ citedPagesMetadata[pos].page = currentPage
    /\ pageText /= <<>>
    /\ LET pageCites == CurrentPageCitations(citedPagesMetadata, currentPage)
           k == Cardinality({j \in 1..pos : citedPagesMetadata[j].page = currentPage})
           before == HighlightFrom(pageText, SubSeq(pageCites, 1, k - 1), 1)
       IN  HighlightCitation(before, pageCites[k], k - 1) /= before

\* The callback of scrollToCitation's timeout: the index of the citation in
\* the list, the elements with that data-citation-id, scrollIntoView on the
\* first. Nothing of the viewer's state changes.
ScrollTimerFires(timer) ==
    /\ timer \in timers
    /\ timers' = timers \ {timer}
    /\ UNCHANGED <<outside, pdfFile, citedPagesMetadata, pdf, pdfRef, currentPage, totalPages,
                   loading, error, pageText, highlightedText, documents, loads,
                   extracts, textSource, hlRun>>

Next ==
    \/ \E file \in Files : Upload(file)
    \/ NewSession
    \/ Retry
    \/ \E load \in loads : LoadSucceeds(load)
    \/ \E load \in loads : LoadFails(load)
    \/ handlePrevPage
    \/ handleNextPage
    \/ \E pageNum \in 1..3 : goToPage(pageNum)
    \/ \E pos \in 1..3 : scrollToCitation(pos)
    \/ \E list \in ResponseLists : ReceiveCitations(list)
    \/ \E extract \in extracts : ExtractSucceeds(extract)
    \/ \E extract \in extracts : ExtractFails(extract)
    \/ \E timer \in timers : ScrollTimerFires(timer)

Spec == Init /\ [][Next]_vars

(***************************************************************************)
(* The highlighter on its own: a page is on display, an answer arrives,    *)
(* and the same citations arrive again                                     *)
(***************************************************************************)

\* The citation lists of at most MaxCitations citations of the pool.
CitationLists == UNION {[1..n -> CitationPool] : n \in 0..MaxCitations}

\* A file was uploaded and loaded and a page of it was extracted, no answer
\* was received yet: applyHighlights has run once, on the text of the page and
\* no citations.
PageDisplayed ==
    /\ pdfFile \in Files
    /\ currentPage \in 1..NumPages(pdfFile)
    /\ citedPagesMetadata = <<>>
    /\ pdf = 1
    /\ pdfRef = 1
    /\ totalPages = NumPages(pdfFile)
    /\ loading = FALSE
    /\ error = "none"
    /\ pageText = PageTexts[pdfFile][currentPage]
    /\ highlightedText = pageText
    /\ documents = <<[file |-> pdfFile, destroyed |-> FALSE]>>
    /\ loads = {}
    /\ extracts = {}
    /\ timers = {}
    /\ textSource = currentPage
    /\ hlRun = [runs |-> 1, page |-> currentPage, source |-> currentPage]

InitHL == PageDisplayed /\ OutsideIdle

\* The answers with a single citation of the phrase pool or of the
\* punctuation pool.
PhraseLists == {<<citation>> : citation \in PhrasePool \cup PunctuationPool}

\* The first answer arrives with any of the lists; every further answer cites
\* the same passages: its list is a new array with the same citations, and
\* the highlight effect runs again.
NextHL ==
    \E list \in CitationLists \cup PhraseLists :
        /\ citedPagesMetadata = <<>> \/ list = citedPagesMetadata
        /\ ReceiveCitations(list)

SpecHL == InitHL /\ [][NextHL]_vars

(***************************************************************************)
(* What the properties speak of                                            *)
(***************************************************************************)

\* The citations applyHighlights selects in the displayed state.
PageCitations == CurrentPageCitations(citedPagesMetadata, currentPage)

\* The phrase-level marks of the rendered text that carry the index (their
\* offsets).
PhraseElements(index) ==
    Occurrences(highlightedText, PhraseOpenStart \o ToDecimal(index) \o <<"\"">>)

\* The end offset of the tag that starts at offset pos of a markup text: a
\* <mark ...> up to its first >, or </mark>; -1 when no tag starts there.
TagEnd(text, pos) ==
    IF LiteralAt(text, CloseTag, pos) THEN pos + Len(CloseTag)
    ELSE IF LiteralAt(text, Chars("<mark "), pos)
         THEN LET closes == {q \in (pos + 1)..Len(text) : text[q] = ">"}
              IN  IF closes = {} THEN -1
                  ELSE CHOOSE q \in closes : \A r \in closes : q <= r
         ELSE -1

\* The stretch from..to of a text without the matches lo..hi that lie in it.
RECURSIVE RemoveFrom(_, _, _, _, _, _)
RemoveFrom(text, matches, lo, hi, from, to) ==
    IF lo > hi THEN Slice(text, from, to)
    ELSE LET mid == (lo + hi) \div 2
             m == matches[mid]
         IN  RemoveFrom(text, matches, lo, mid - 1, from, m.index)
             \o RemoveFrom(text, matches, mid + 1, hi, m.index + m.length, to)

\* A markup text with its <mark ...> and </mark> tags removed.
StripMarks(text) ==
    LET tags == Scan([p \in 0..Len(text) |-> TagEnd(text, p)], 0, Len(text), 0)
    IN  RemoveFrom(text, tags, 1, Len(tags), 0, Len(text))

\* Both citations have a quote of at least MinSearchLength characters after
\* cleaning, each quote occurs verbatim in the page text, and an occurrence
\* of the one overlaps an occurrence of the other.
Overlap(text, c, d) ==
    /\ c.quote /= Undefined /\ d.quote /= Undefined
    /\ Len(CleanSearchText(c.quote)) >= MinSearchLength
    /\ Len(CleanSearchText(d.quote)) >= MinSearchLength
    /\ \E p \in Occurrences(text, c.quote), q \in Occurrences(text, d.quote) :
           p < q + Len(d.quote) /\ q < p + Len(c.quote)

\* The citation has a quote or content_preview, of fewer than MinSearchLength
\* characters once trimmed and its whitespace collapsed.
IsShort(citation) ==
    /\ SearchTextOf(citation) /= Undefined
    /\ Len(CleanSearchText(SearchTextOf(citation))) < MinSearchLength

\* The citation has neither quote nor content_preview.
IsUnusable(citation) ==
    /\ citation.quote = Undefined \/ citation.quote = <<>>
    /\ citation.content_preview = Undefined \/ citation.content_preview = <<>>

\* The page text marked up for all the citations of the page but the one at
\* position skipped, each with the index of its position.
RECURSIVE HighlightOthers(_, _, _, _)
HighlightOthers(content, pageCites, n, skipped) ==
    IF n > Len(pageCites) THEN content
    ELSE HighlightOthers(IF n = skipped THEN content
                         ELSE HighlightCitation(content, pageCites[n], n - 1),
                         pageCites, n + 1, skipped)

(***************************************************************************)
(* Properties                                                              *)
(***************************************************************************)

\* C1: when an extractPageText call completes for a page that is no longer
\* the current page, pageText and highlightedText stay as they are.
StaleExtractionSuppressed ==
    [][\A extract \in extracts :
           (extract \notin extracts' /\ extract.page /= currentPage)
           => (pageText' = pageText /\ highlightedText' = highlightedText)]_vars

\* C2: every run of applyHighlights matches the citations of its currentPage
\* against text that was extracted from that page.
HighlightsUseTextOfCurrentPage ==
    hlRun.runs > 0 => hlRun.source = hlRun.page

\* C3: at most one document obtained from getDocument is not destroyed.
SingleDocumentHandle ==
    Cardinality(OpenDocuments) <= 1

\* C4: when the timeout of a scrollToCitation call that switched the page
\* fires, no extraction of the citation's page is still in flight.
ScrollWaitsForExtraction ==
    [][\A timer \in timers :
           (timer \notin timers' /\ timer.switched)
           => \A extract \in extracts :
                  ~(extract.doc = pdf /\ extract.page = timer.list[timer.pos].page)]_vars

\* C5: when scrollToCitation was called for a citation of the displayed list
\* that is highlighted on the displayed page, the elements carrying the index
\* it looks up (the position in the whole list) exist and were produced by
\* that citation.
TagMatchesScrollLookup ==
    \A timer \in timers :
        (/\ timer.list = citedPagesMetadata
         /\ TextShown
         /\ IsHighlighted(timer.pos))
        => LET index == CitationIndex(timer.list, timer.pos)
           IN  /\ ElementsWithCitationId(index) /= {}
               /\ ProducerOf(index) = timer.pos

\* C6: a run of applyHighlights that follows a run with the same page, page
\* text and citations leaves highlightedText (and so its highlight elements)
\* as it was.
NoAccumulation ==
    [][(/\ hlRun.runs >= 1
        /\ hlRun'.runs > hlRun.runs
        /\ pageText' = pageText
        /\ currentPage' = currentPage
        /\ citedPagesMetadata' = citedPagesMetadata)
       => highlightedText' = highlightedText]_vars

\* C6, the case: after the run on the text of the page alone, applyHighlights
\* ran twice on the same citations, and there are highlights.
RebuiltTwice ==
    /\ hlRun.runs >= 3
    /\ highlightedText /= pageText
    /\ PhraseElements(0) /= {}

\* C7: highlightedText without its <mark ...> and </mark> tags is pageText.
HighlightingOnlyAddsMarkers ==
    (hlRun.runs > 0 /\ pageText /= <<>>) => StripMarks(highlightedText) = pageText

\* C8: two citations of the page whose quotes occur verbatim in the page text
\* with overlapping occurrences both have phrase-level highlight elements,
\* each with its own index.
OverlappingCitationsHighlighted ==
    \A i, j \in DOMAIN PageCitations :
        (i /= j /\ pageText /= <<>> /\ Overlap(pageText, PageCitations[i], PageCitations[j]))
        => (PhraseElements(i - 1) /= {} /\ PhraseElements(j - 1) /= {})

\* C9: a citation whose quote or content_preview has fewer than 3 characters
\* once trimmed and collapsed has no highlight element.
ShortQuotesNeverHighlight ==
    \A k \in DOMAIN PageCitations :
        IsShort(PageCitations[k]) => ElementsWithCitationId(k - 1) = {}

\* C10: a citation of the page with neither quote nor content_preview raises
\* no error, has no highlight element, and the highlighted text is the page
\* text marked up for the other citations of the page.
UnusableCitationSkipped ==
    \A k \in DOMAIN PageCitations :
        (hlRun.runs > 0 /\ pageText /= <<>> /\ IsUnusable(PageCitations[k]))
        => /\ error = "none"
           /\ ElementsWithCitationId(k - 1) = {}
           /\ highlightedText = HighlightOthers(pageText, PageCitations, 1, k)

\* C10, the case: a citation with neither field comes before a citation of
\* the page that is highlighted.
SkippedBeforeHighlighted ==
    \E k, j \in DOMAIN PageCitations :
        /\ k < j
        /\ IsUnusable(PageCitations[k])
        /\ hlRun.runs > 0
        /\ ElementsWithCitationId(j - 1) /= {}

\* C11: when only one document was ever loaded and the extraction of its
\* current page succeeds after the extraction of another page failed (the
\* error of the failed page is set), the error is cleared, so the text of
\* the page is shown.
PageFailureIsLocal ==
    [][\A extract \in extracts :
           (/\ extract \notin extracts'
            /\ Len(documents) = 1
            /\ error = "extract"
            /\ extract.doc = pdf
            /\ extract.page = currentPage
            /\ textSource' = extract.page)
           => error' = "none"]_vars

\* The citation passes the guard and no tier finds a region of the text for
\* it: neither phrase pattern matches and the word fallback marks nothing.
NotFoundIn(text, citation) ==
    /\ ~IsSkipped(SearchTextOf(citation))
    /\ LET clean == CleanSearchText(SearchTextOf(citation))
       IN  /\ Len(PhraseMatches(text, clean)) = 0
           /\ WordFallback(text, LongWords(clean), 1, 0) = text

\* C12: a citation of the page for which no tier finds a region of the page
\* text has no highlight element, the error stays unset, and the highlighted
\* text is the page text marked up for the other citations of the page.
MatchNotFoundIsSilent ==
    \A k \in DOMAIN PageCitations :
        (hlRun.runs > 0 /\ pageText /= <<>> /\ NotFoundIn(pageText, PageCitations[k]))
        => /\ error = "none"
           /\ ElementsWithCitationId(k - 1) = {}
           /\ highlightedText = HighlightOthers(pageText, PageCitations, 1, k)

\* The word-level marks of the rendered text that carry the index (their
\* offsets).
WordElements(index) ==
    Occurrences(highlightedText, WordOpenStart \o ToDecimal(index) \o OpenEnd)

\* highlightedContent as the forEach body of the k-th citation of the page
\* finds it: the page text marked up for the citations before it.
ContentBefore(k) == HighlightFrom(pageText, SubSeq(PageCitations, 1, k - 1), 1)

\* C13: for every citation of the page that passes the guard, word-level
\* marks exist only if neither the exact nor the sequence pattern matched,
\* the marks of an exact match are those of the exact pattern alone, and the
\* citation never has both phrase-level and word-level marks.
TierOrderFirstSuccessWins ==
    \A k \in DOMAIN PageCitations :
        (hlRun.runs > 0 /\ pageText /= <<>> /\ ~IsSkipped(SearchTextOf(PageCitations[k])))
        => LET clean == CleanSearchText(SearchTextOf(PageCitations[k]))
               exact == ExactMatches(ContentBefore(k), clean)
               sequence == SequenceMatches(ContentBefore(k), clean)
           IN  /\ WordElements(k - 1) /= {} => (Len(exact) = 0 /\ Len(sequence) = 0)
               /\ Len(exact) > 0 =>
                      HighlightCitation(ContentBefore(k), PageCitations[k], k - 1)
                          = WrapMatches(ContentBefore(k), exact, 1, Len(exact), k - 1)
               /\ ~(PhraseElements(k - 1) /= {} /\ WordElements(k - 1) /= {})

\* C13, the case: one citation of the page was marked by the word fallback
\* and another by a phrase tier.
FallbackAndPhraseSeen ==
    \E k, j \in DOMAIN PageCitations :
        /\ hlRun.runs > 1
        /\ WordElements(k - 1) /= {}
        /\ PhraseElements(j - 1) /= {}

\* The stretch p..e of the text starts and ends at a word boundary and holds
\* the words of the quote, more than one, in their order: the two differ only
\* in the whitespace between the words.
IsWhitespaceVariant(text, quote, p, e) ==
    /\ WordBoundary(text, p) /\ WordBoundary(text, e)
    /\ Len(SplitWhitespace(Trim(quote), <<>>)) > 1
    /\ SplitWhitespace(Slice(text, p, e), <<>>) = SplitWhitespace(Trim(quote), <<>>)

\* C14: when the quote of the only citation of the page differs from a
\* passage of the page text only in the whitespace between its words, the
\* passage is wrapped whole in one phrase-level mark of that citation.
FlexibleWhitespaceMatch ==
    \A p \in 0..Len(pageText), e \in 0..Len(pageText) :
        (/\ hlRun.runs > 0
         /\ Len(PageCitations) = 1
         /\ PageCitations[1].quote /= Undefined
         /\ p < e
         /\ IsWhitespaceVariant(pageText, PageCitations[1].quote, p, e))
        => Occurrences(highlightedText,
                       PhraseOpenTag(0, p) \o Slice(pageText, p, e) \o CloseTag) /= {}


\* The words a fallback over at most the first 15 words longer than 3
\* characters would look for.
FallbackWords(clean) ==
    LET words == SelectSeq(SplitWhitespace(clean, <<>>), LAMBDA w : Len(w) > 3)
    IN  SubSeq(words, 1, IF Len(words) > 15 THEN 15 ELSE Len(words))

\* C15: when the only citation of the page falls through to the word
\* fallback, the result is the page text with the whole-word occurrences of
\* the first 15 words of the quote longer than 3 characters marked, and
\* nothing else marked.
WordFallbackRule ==
    (/\ hlRun.runs > 0
     /\ pageText /= <<>>
     /\ Len(PageCitations) = 1
     /\ ~IsSkipped(SearchTextOf(PageCitations[1]))
     /\ Len(PhraseMatches(pageText, CleanSearchText(SearchTextOf(PageCitations[1])))) = 0)
    => highlightedText =
           WordFallback(pageText,
                        FallbackWords(CleanSearchText(SearchTextOf(PageCitations[1]))), 1, 0)


(***************************************************************************)
(* The cleaning of the search text on its own                              *)
(***************************************************************************)

MaxQuoteLength == 5

\* The characters quotes are made of: two letters and the whitespace
\* characters space, newline and tab.
QuoteChars == {"a", "b", " ", "\n", "\t"}

\* The quotes of up to MaxQuoteLength characters.
Quotes == UNION {[1..n -> QuoteChars] : n \in 0..MaxQuoteLength}

\* A citation's quote reaches applyHighlights; it is not cleaned yet.
InitClean ==
    /\ InitRightPanel
    /\ searchText \in Quotes
    /\ cleanSearchText = Undefined
    /\ items = <<>>
    /\ extractedText = Undefined
    /\ OverlayIdle
    /\ CopyIdle
    /\ AppIdle

\* const cleanSearchText = searchText.replace(/\s+/g, ' ').trim()
Clean ==
    /\ cleanSearchText = Undefined
    /\ cleanSearchText' = CleanSearchText(searchText)
    /\ UNCHANGED <<rightPanel, app, overlay, searchText, items, extractedText, copying>>

NextClean == Clean

SpecClean == InitClean /\ [][NextClean]_vars

\* C16: cleaning a cleaned search text gives the cleaned search text again.
NormalizationIdempotent ==
    cleanSearchText /= Undefined
    => CleanSearchText(cleanSearchText) = cleanSearchText

\* C16, the case: a quote with leading whitespace and a whitespace run of
\* three characters between two words has been cleaned.
RunsCollapsedAndTrimmed ==
    /\ cleanSearchText = Chars("a b")
    /\ Len(searchText) = MaxQuoteLength
    /\ IsSpace(searchText[2]) /\ IsSpace(searchText[3]) /\ IsSpace(searchText[4])


(***************************************************************************)
(* The linearisation of a page's text items on its own                     *)
(***************************************************************************)

MaxItems == 3

\* item.str: empty, a letter, a letter followed by a space, a letter followed
\* by a tab.
ItemStrings == {<<>>, <<"a">>, <<"b", " ">>, <<"c", "\t">>}

\* item.transform as <<x, y>>: positions on one line, on a line 1 and 4 units
\* off, on another line, and no transform.
ItemTransforms == {<<0, 0>>, <<4, 0>>, <<10, 1>>, <<10, 4>>, <<0, 10>>, <<>>}

ItemWidth == 2

TextItems ==
    {[str |-> str, transform |-> transform, width |-> ItemWidth] :
        str \in ItemStrings, transform \in ItemTransforms}

\* textContent.items of up to MaxItems items.
ItemLists == UNION {[1..n -> TextItems] : n \in 0..MaxItems}

\* getTextContent has resolved; the items are not linearised yet.
InitExtract ==
    /\ InitRightPanel
    /\ searchText = <<>>
    /\ cleanSearchText = Undefined
    /\ items \in ItemLists
    /\ extractedText = Undefined
    /\ OverlayIdle
    /\ CopyIdle
    /\ AppIdle

\* extractPageText from the check of textContent.items to setPageText.
Linearize ==
    /\ extractedText = Undefined
    /\ extractedText' = ExtractedText(items)
    /\ UNCHANGED <<rightPanel, app, overlay, searchText, cleanSearchText, items, copying>>

NextExtract == Linearize

SpecExtract == InitExtract /\ [][NextExtract]_vars

\* The space of the rule: after a run when the next one is on the same line
\* (Y difference under 2), more than 5 to the right of its end, and the run's
\* text does not end in whitespace.
RuleGapAfter(runs, n) ==
    IF /\ n < Len(runs)
       /\ runs[n + 1].transform /= <<>>
       /\ Abs(ItemY(runs[n]) - ItemY(runs[n + 1])) < 2
       /\ ItemX(runs[n + 1]) - (ItemX(runs[n]) + runs[n].width) > 5
       /\ ~IsSpace(runs[n].str[Len(runs[n].str)])
    THEN <<" ">> ELSE <<>>

\* The rule from run n on: runs with empty text skipped, a newline before a
\* run whose Y is more than 5 from the Y of the run before it, the run's text,
\* the space of the rule.
RECURSIVE RuleFrom(_, _, _)
RuleFrom(runs, n, lastY) ==
    IF n > Len(runs) THEN <<>>
    ELSE IF runs[n].str = <<>> THEN RuleFrom(runs, n + 1, lastY)
    ELSE (IF lastY /= <<>> /\ Abs(lastY[1] - ItemY(runs[n])) > 5 THEN <<"\n">> ELSE <<>>)
         \o runs[n].str
         \o RuleGapAfter(runs, n)
         \o RuleFrom(runs, n + 1, <<ItemY(runs[n])>>)

\* C17: the text extractPageText hands to setPageText is the text of the
\* rule, trimmed.
LinearizationIsTheRule ==
    extractedText /= Undefined => extractedText = Trim(RuleFrom(items, 1, <<>>))


(***************************************************************************)
(* The copy functions                                                      *)
(***************************************************************************)

MaxCopies == 2

\* What the user can have selected in the text container: a word, a word
\* with the spaces around it, a single space.
SelectionTexts == {Chars("cat"), Chars(" sat "), Chars(" ")}

\* A page is displayed, nothing is selected, and the browser has the
\* asynchronous clipboard interface or lacks it.
InitCopy ==
    /\ PageDisplayed
    /\ searchText = <<>>
    /\ cleanSearchText = Undefined
    /\ items = <<>>
    /\ extractedText = Undefined
    /\ OverlayIdle
    /\ selection = NoRange
    /\ hasClipboard \in BOOLEAN
    /\ writes = {}
    /\ feedbacks = 0
    /\ failures = <<>>
    /\ fallbackCalls = <<>>
    /\ AppIdle

\* The user selects text, or clicks the selection away.
SelectText(text) ==
    /\ text /= selection
    /\ selection' = text
    /\ UNCHANGED <<rightPanel, app, overlay, searchText, cleanSearchText, items, extractedText,
                   hasClipboard, writes, feedbacks, failures, fallbackCalls>>

\* A copy may start when the feedback elements and the history have room for
\* its outcome.
CanCopy ==
    /\ Cardinality(writes) + feedbacks < MaxCopies
    /\ Cardinality(writes) + Len(failures) < MaxCopies

\* fallbackCopyText(text): a textarea holding the text is focused and
\* selected, which in some browsers empties the window's selection;
\* execCommand('copy') returns true (showCopyFeedback), returns false or throws.
FallbackCopyText(text) ==
    /\ fallbackCalls' = Append(fallbackCalls, text)
    /\ \E successful \in BOOLEAN : feedbacks' = IF successful THEN feedbacks + 1 ELSE feedbacks
    /\ selection' \in {selection, NoRange}

\* writeText(text) is called and awaited.
WriteText(fn, text) ==
    /\ writes' = writes \cup {[slot |-> FreeSlot(writes, MaxCopies), fn |-> fn, text |-> text]}
    /\ UNCHANGED <<selection, feedbacks, failures, fallbackCalls>>

\* copySelectedText up to its await, or to its end without the clipboard
\* interface.
copySelectedText ==
    /\ CanCopy
    /\ IF selection /= NoRange /\ Trim(selection) /= <<>>
       THEN IF hasClipboard
            THEN WriteText("copySelectedText", Trim(selection))
            ELSE /\ failures' = Append(failures, Trim(selection))
                 /\ FallbackCopyText(Trim(selection))
                 /\ UNCHANGED writes
       ELSE UNCHANGED <<selection, writes, feedbacks, failures, fallbackCalls>>
    /\ UNCHANGED <<rightPanel, app, overlay, searchText, cleanSearchText, items, extractedText,
                   hasClipboard>>

\* copyAllText up to its await, or to its end without the clipboard interface.
copyAllText ==
    /\ CanCopy
    /\ IF pageText /= <<>>
       THEN IF hasClipboard
            THEN WriteText("copyAllText", pageText)
            ELSE /\ failures' = Append(failures, pageText)
                 /\ FallbackCopyText(pageText)
                 /\ UNCHANGED writes
       ELSE UNCHANGED <<selection, writes, feedbacks, failures, fallbackCalls>>
    /\ UNCHANGED <<rightPanel, app, overlay, searchText, cleanSearchText, items, extractedText,
                   hasClipboard>>

\* writeText resolved: showCopyFeedback.
WriteResolves(write) ==
    /\ write \in writes
    /\ writes' = writes \ {write}
    /\ feedbacks' = feedbacks + 1
    /\ UNCHANGED <<rightPanel, app, overlay, searchText, cleanSearchText, items, extractedText,
                   selection, hasClipboard, failures, fallbackCalls>>

\* writeText rejected: the catch block. copySelectedText reads the selection
\* again; copyAllText uses the pageText of its call.
WriteRejects(write) ==
    /\ write \in writes
    /\ writes' = writes \ {write}
    /\ failures' = Append(failures, write.text)
    /\ IF write.fn = "copyAllText"
       THEN FallbackCopyText(write.text)
       ELSE IF selection /= NoRange
            THEN FallbackCopyText(Trim(selection))
            ELSE UNCHANGED <<selection, feedbacks, fallbackCalls>>
    /\ UNCHANGED <<rightPanel, app, overlay, searchText, cleanSearchText, items, extractedText,
                   hasClipboard>>

\* The setTimeout of showCopyFeedback removes the feedback element.
FeedbackExpires ==
    /\ feedbacks > 0
    /\ feedbacks' = feedbacks - 1
    /\ UNCHANGED <<rightPanel, app, overlay, searchText, cleanSearchText, items, extractedText,
                   selection, hasClipboard, writes, failures, fallbackCalls>>

NextCopy ==
    \/ \E text \in SelectionTexts \cup {NoRange} : SelectText(text)
    \/ copySelectedText
    \/ copyAllText
    \/ \E write \in writes : WriteResolves(write)
    \/ \E write \in writes : WriteRejects(write)
    \/ FeedbackExpires
    \/ handlePrevPage
    \/ handleNextPage
    \/ \E extract \in extracts : ExtractSucceeds(extract)

SpecCopy == InitCopy /\ [][NextCopy]_vars

\* C18: every text whose clipboard write was impossible or was rejected has
\* been handed to fallbackCopyText, in the same order, and the error state
\* is not set.
ClipboardFallbackSameText ==
    /\ fallbackCalls = failures
    /\ error = "none"


(***************************************************************************)
(* App: questions and their answers                                        *)
(***************************************************************************)

SessionExpiredAnswer ==
    "Your session has expired. Please upload the PDF file again to continue."

ErrorAnswer == "Sorry, there was an error processing your request."

Questions == {"Where did the cat sit?"}

\* The case_id values the backend hands out.
CaseIds == {1}

\* The bodies of the backend's 200 responses: answer, case_id and doc_id,
\* each present or falsy ("", 0), with or without cited_pages_metadata.
ResponseData ==
    [answer : {"", "The cat sat down."},
     case_id : {0} \cup CaseIds,
     doc_id : {0, 1}]
    \cup
    [answer : {"", "The cat sat down."},
     cited_pages_metadata : {<<>>} \cup ResponseLists,
     case_id : {0} \cup CaseIds,
     doc_id : {0, 1}]

\* The statuses of the backend's other responses.
ErrorStatuses == {400, 404, 500}

\* App is mounted: caseId starts as the case_id localStorage holds, if any;
\* the viewer has no file, or displays a page of an uploaded one.
InitApp ==
    /\ InitRightPanel \/ PageDisplayed
    /\ searchText = <<>>
    /\ cleanSearchText = Undefined
    /\ items = <<>>
    /\ extractedText = Undefined
    /\ OverlayIdle
    /\ CopyIdle
    /\ message = ""
    /\ answer = ""
    /\ storedCaseId \in {0} \cup CaseIds
    /\ caseId = storedCaseId
    /\ docId = 0
    /\ isLoading = FALSE
    /\ ask = NoAsk
    /\ response = NoResponse

\* What the handlers of App leave alone.
besideApp == <<searchText, cleanSearchText, items, extractedText, overlay, copying>>

\* The input of LeftPanel, enabled while no question is being answered.
setMessage(text) ==
    /\ ~isLoading
    /\ text /= message
    /\ message' = text
    /\ UNCHANGED <<rightPanel, besideApp, answer, caseId, storedCaseId, docId, isLoading,
                   ask, response>>

\* A variant of the storing that leaves localStorage as it is.
CaseStoredInStateOnly(id) ==
    /\ caseId' = id
    /\ UNCHANGED storedCaseId

\* localStorage.setItem("case_id", id); setCaseId(id)
CaseStored(id) ==
    /\ storedCaseId' = id
    /\ caseId' = id

\* A variant of the clearing that leaves the case_id where it is.
CaseLeft == UNCHANGED <<caseId, storedCaseId>>

\* localStorage.removeItem("case_id"); setCaseId(null)
CaseCleared ==
    /\ storedCaseId' = 0
    /\ caseId' = 0

\* A variant of the finally block that leaves isLoading set.
SendEndsLoading ==
    /\ isLoading' = isLoading
    /\ message' = ""
    /\ ask' = NoAsk

\* The finally block of handleSend.
SendEnds ==
    /\ isLoading' = FALSE
    /\ message' = ""
    /\ ask' = NoAsk

\* handleSend up to its fetch; Send and the Enter key act when message is not
\* blank and isLoading is false.
handleSend ==
    /\ message /= ""
    /\ ~isLoading
    /\ pdfFile /= 0 \/ caseId /= 0
    /\ isLoading' = TRUE
    /\ ask' = [question |-> message, caseId |-> caseId, form |-> FormData(caseId, pdfFile)]
    /\ UNCHANGED <<rightPanel, besideApp, message, answer, caseId, storedCaseId, docId,
                   response>>

\* The response is ok and its text parses. A case_id that differs from the
\* caseId handleSend was called with is stored.
SendSucceeds(data) ==
    LET cited == IF "cited_pages_metadata" \in DOMAIN data
                 THEN data.cited_pages_metadata ELSE <<>>
    IN  /\ ask /= NoAsk
        /\ IF data.case_id /= 0 /\ data.case_id /= ask.caseId
           THEN CaseStored(data.case_id)
           ELSE UNCHANGED <<caseId, storedCaseId>>
        /\ answer' = data.answer
        /\ CitationsReplaced(cited)
        /\ docId' = IF data.doc_id /= 0 THEN data.doc_id ELSE docId
        /\ SendEnds
        /\ response' = [kind |-> "ok", status |-> 200, cited |-> cited]
        /\ UNCHANGED besideApp

\* The response is not ok: the session has expired (404 or 400 to a
\* question sent with a case_id), or the error is thrown to the catch block.
SendGetsError(status) ==
    /\ ask /= NoAsk
    /\ IF status \in {404, 400} /\ ask.caseId /= 0
       THEN /\ CaseCleared
            /\ answer' = SessionExpiredAnswer
            /\ response' = [kind |-> "expired", status |-> status, cited |-> <<>>]
            /\ UNCHANGED rightPanel
       ELSE /\ answer' = ErrorAnswer
            /\ CitationsReplaced(<<>>)
            /\ IF status \in {404, 400}
               THEN CaseCleared
               ELSE UNCHANGED <<caseId, storedCaseId>>
            /\ response' = [kind |-> "error", status |-> status, cited |-> <<>>]
    /\ SendEnds
    /\ UNCHANGED <<besideApp, docId>>

\* fetch or res.text() rejects, or JSON.parse throws: the catch block.
SendFails ==
    /\ ask /= NoAsk
    /\ answer' = ErrorAnswer
    /\ CitationsReplaced(<<>>)
    /\ response' = [kind |-> "failed", status |-> 0, cited |-> <<>>]
    /\ SendEnds
    /\ UNCHANGED <<besideApp, caseId, storedCaseId, docId>>

\* A variant of handleUpload that replaces the file and keeps the results of
\* the session before.
handleUploadOnly(file) ==
    /\ ~isLoading
    /\ FileReplaced(file)
    /\ UNCHANGED <<besideApp, app>>

\* handleUpload(file), from the file input, which is disabled while isLoading.
handleUpload(file) ==
    /\ ~isLoading
    /\ FileReplaced(file)
    /\ answer' = ""
    /\ docId' = 0
    /\ CaseCleared
    /\ UNCHANGED <<besideApp, message, isLoading, ask, response>>

\* handleNewSession
handleNewSession ==
    /\ FileCleared
    /\ answer' = ""
    /\ docId' = 0
    /\ message' = ""
    /\ CaseCleared
    /\ UNCHANGED <<besideApp, isLoading, ask, response>>

\* The fetch of the pending handleSend settles.
SendSettles ==
    \/ \E data \in ResponseData : SendSucceeds(data)
    \/ \E status \in ErrorStatuses : SendGetsError(status)
    \/ SendFails

\* The handlers of App. The loads the uploads start in the viewer stay
\* pending here; Spec follows them.
NextApp ==
    \/ \E text \in Questions \cup {""} : setMessage(text)
    \/ handleSend
    \/ \E data \in ResponseData : SendSucceeds(data)
    \/ \E status \in ErrorStatuses : SendGetsError(status)
    \/ SendFails
    \/ \E file \in Files : handleUpload(file)
    \/ handleNewSession

SpecApp == InitApp /\ [][NextApp]_vars

\* C19: when a handleSend that issued a request ends, the citation list is
\* the cited_pages_metadata of its response, and empty when the response had
\* none or the request failed.
CitationsReplacedPerQuestion ==
    [][(ask /= NoAsk /\ ask' = NoAsk) => citedPagesMetadata' = response'.cited]_vars


\* C20: when the one document loaded so far is open, no load and no
\* extraction is pending and none has failed, highlightedText is the
\* highlight build of the text and the citations of currentPage.
RebuildConverges ==
    (/\ pdfFile /= 0
     /\ pdf /= 0
     /\ Len(documents) = 1
     /\ loads = {}
     /\ extracts = {}
     /\ error = "none"
     /\ currentPage \in 1..NumPages(pdfFile))
    => highlightedText =
           HighlightedContent(PageTexts[pdfFile][currentPage], citedPagesMetadata, currentPage)


\* C21: the request handleSend issues carries the case_id or the file, never
\* both and never neither, and it carries the case_id and no file whenever
\* localStorage holds a case_id.
OneDocumentReference ==
    [][(ask = NoAsk /\ ask' /= NoAsk)
       => /\ (ask'.form.case_id /= 0) /= (ask'.form.file /= 0)
          /\ storedCaseId /= 0 => ask'.form = [case_id |-> storedCaseId, file |-> 0]
          /\ storedCaseId = 0 => ask'.form = [case_id |-> 0, file |-> pdfFile]]_vars

\* C21, the case: a file is held, an answer has been received, and the
\* request in flight carries a case_id and no file.
CaseIdSentWhileFileHeld ==
    /\ ask /= NoAsk
    /\ pdfFile /= 0
    /\ response.kind = "ok"
    /\ ask.form.case_id /= 0
    /\ ask.form.file = 0


\* C22: a step in which a file is uploaded (a load starts) leaves answer
\* empty, the citation list empty, docId null and the case_id absent from the
\* state and from localStorage.
UploadStartsFreshSession ==
    [][loads' \ loads /= {}
       => /\ answer' = ""
          /\ citedPagesMetadata' = <<>>
          /\ docId' = 0
          /\ caseId' = 0
          /\ storedCaseId' = 0]_vars

\* C22, the case: a file was uploaded over the page displayed at the start
\* after the last question had been answered with citations, and the session
\* is fresh.
UploadedOverAnsweredPage ==
    /\ Len(documents) = 1
    /\ loads /= {}
    /\ pageText /= <<>>
    /\ response.kind = "ok"
    /\ response.cited /= <<>>
    /\ answer = ""
    /\ citedPagesMetadata = <<>>
    /\ docId = 0
    /\ caseId = 0
    /\ storedCaseId = 0


\* C23: when a request sent with a case_id ends with status 400 or 404, the
\* case_id is gone from the state and from localStorage and isLoading is
\* false; and the next request, sent while a file is held, carries the file
\* and no case_id.
SessionExpiryRecovery ==
    [][/\ (/\ ask.form.case_id /= 0
           /\ ask' = NoAsk
           /\ response'.status \in {400, 404})
          => (caseId' = 0 /\ storedCaseId' = 0 /\ isLoading' = FALSE)
       /\ (/\ ask = NoAsk
           /\ ask' /= NoAsk
           /\ response.kind = "expired"
           /\ pdfFile /= 0)
          => ask'.form = [case_id |-> 0, file |-> pdfFile]]_vars

\* C23, the case: the session expired and the next request carries the file.
FileSentAfterExpiry ==
    /\ response.kind = "expired"
    /\ ask /= NoAsk
    /\ ask.form.file /= 0


\* App when every fetch settles: a pending handleSend gets its response, its
\* error status or its failure.
SpecAppSettling == SpecApp /\ WF_vars(SendSettles)

\* C25: a handleSend that set isLoading is followed by a state in which
\* isLoading is false and the message is empty; and while isLoading is true
\* no other request is issued and no upload starts.
LoadingEndsAndBlocks ==
    /\ isLoading ~> (~isLoading /\ message = "")
    /\ [][isLoading => (ask' \in {ask, NoAsk} /\ loads' \ loads = {})]_vars

\* C25, the case: a request that got an error status has ended.
ErrorStatusEnded ==
    /\ response.kind = "error"
    /\ ask = NoAsk
    /\ ~isLoading
    /\ message = ""


\* C24: the case_id in localStorage is the caseId of the state, or both are
\* absent.
StoredCaseIdIsCaseId == storedCaseId = caseId

\* C24, the case: after an upload had cleared the case_id, a response's
\* case_id has been stored.
CaseStoredAfterUpload ==
    /\ loads /= {}
    /\ response.kind = "ok"
    /\ caseId /= 0
    /\ storedCaseId = caseId


\* C26: while a document with at least one page is loaded, currentPage is one
\* of its pages.
PageWithinBounds ==
    (pdf /= 0 /\ totalPages >= 1) => currentPage \in 1..totalPages


\* C27: loading is true while a loadPDF or an extractPageText call has not
\* finished.
LoadingWhileInFlight ==
    (loads /= {} \/ extracts /= {}) => loading


\* C28: when a file is selected and no load is pending, the document of the
\* viewer (pdf and pdfRef.current), if it has one, was loaded from that file.
LatestFileWins ==
    (loads = {} /\ pdfFile /= 0 /\ pdf /= 0)
    => (documents[pdf].file = pdfFile /\ pdfRef = pdf)


\* C29: every highlight element of the rendered text wraps a non-empty
\* stretch of text, and the matches of the only citation of the page, which
\* are wrapped from the last to the first, lie in the page text with
\* 0 <= start < end <= length.
WellFormedSpans ==
    (hlRun.runs > 0 /\ pageText /= <<>>)
    => /\ Occurrences(highlightedText, OpenEnd \o CloseTag) = {}
       /\ (Len(PageCitations) = 1 /\ ~IsSkipped(SearchTextOf(PageCitations[1])))
          => LET matches ==
                     PhraseMatches(pageText, CleanSearchText(SearchTextOf(PageCitations[1])))
             IN  \A i \in DOMAIN matches :
                     /\ 0 <= matches[i].index
                     /\ matches[i].length > 0
                     /\ matches[i].index + matches[i].length <= Len(pageText)


(***************************************************************************)
(* The overlay viewer: a citation is highlighted by overlays on the runs   *)
(* of the text layer                                                       *)
(***************************************************************************)

MaxElements == 3

\* textItem.str of the runs renderTextLayer makes elements of: words, an
\* empty run, a run with leading and trailing whitespace, and a run with a
\* repeated space inside.
ElementTexts == {Chars("The cat"), Chars("sat"), <<>>, Chars(" dog "), Chars("a  b")}

\* The text layers of up to MaxElements runs.
ElementLists == UNION {[1..n -> ElementTexts] : n \in 0..MaxElements}

\* The search texts of the citations: passages of the runs, a passage across
\* two runs, words no run has, and a quote of two characters.
OverlayQuotes ==
    {Chars("cat"), Chars("dog"), Chars("a b"), Chars("cat sat"), Chars("The zebra"),
     Chars("at")}

\* Array.from(textElements).map(el => el.textContent).join(' '), from the
\* n-th element on.
RECURSIVE JoinFrom(_, _)
JoinFrom(elements, n) ==
    IF n > Len(elements) THEN <<>>
    ELSE elements[n]
         \o (IF n < Len(elements) THEN <<" ">> ELSE <<>>)
         \o JoinFrom(elements, n + 1)

FullPageText(elements) == JoinFrom(elements, 1)

\* String.prototype.indexOf: the first offset at which lit occurs, or -1.
IndexOf(text, lit) ==
    LET found == {p \in 0..Len(text) : LiteralAt(text, lit, p)}
    IN  IF found = {} THEN -1
        ELSE CHOOSE p \in found : \A q \in found : p <= q

\* currentIndex of highlightExactMatch when the forEach reaches the n-th
\* element: every earlier element added its length and 1.
RECURSIVE ElementStart(_, _)
ElementStart(elements, n) ==
    IF n = 1 THEN 0
    ELSE ElementStart(elements, n - 1) + Len(elements[n - 1]) + 1

\* highlightExactMatch: the elements that get an overlay.
highlightExactMatch(elements, startIndex, searchLength) ==
    {n \in DOMAIN elements :
        LET elementStart == ElementStart(elements, n)
            elementEnd == elementStart + Len(elements[n])
        IN  elementStart < startIndex + searchLength /\ elementEnd > startIndex}

\* highlightWordMatch: the elements that hold more than 0.3 of the words of
\* the search text longer than 3 characters.
highlightWordMatch(elements, text) ==
    LET words == SelectSeq(SplitWhitespace(FoldText(text), <<>>), LAMBDA w : Len(w) > 3)
    IN  {n \in DOMAIN elements :
            LET matchingWords ==
                    {i \in DOMAIN words : Occurrences(FoldText(elements[n]), words[i]) /= {}}
            IN  /\ Cardinality(matchingWords) > 0
                /\ 10 * Cardinality(matchingWords) > 3 * Len(words)}

\* cleanPageText of highlightTextInPage.
CleanPageText(elements) == CleanSearchText(FullPageText(elements))

\* searchIndex of highlightTextInPage.
SearchIndex(elements, clean) == IndexOf(FoldText(CleanPageText(elements)), FoldText(clean))

\* The elements highlightTextInPage puts an overlay on.
OverlaidElements(elements, text) ==
    IF IsSkipped(text) THEN {}
    ELSE LET clean == CleanSearchText(text)
             searchIndex == SearchIndex(elements, clean)
         IN  IF searchIndex /= -1
             THEN highlightExactMatch(elements, searchIndex, Len(clean))
             ELSE highlightWordMatch(elements, clean)

\* The text layer is rendered and a citation with some search text is about
\* to be highlighted.
InitOverlay ==
    /\ InitRightPanel
    /\ searchText \in OverlayQuotes
    /\ cleanSearchText = Undefined
    /\ items = <<>>
    /\ extractedText = Undefined
    /\ textElements \in ElementLists
    /\ overlays = {}
    /\ CopyIdle
    /\ AppIdle

\* applyHighlights with the one citation: clearHighlights, then
\* highlightTextInPage, which returns at once when the guard skips the
\* citation.
highlightTextInPage ==
    /\ cleanSearchText = Undefined
    /\ ~IsSkipped(searchText)
    /\ cleanSearchText' = CleanSearchText(searchText)
    /\ overlays' = OverlaidElements(textElements, searchText)
    /\ UNCHANGED <<rightPanel, app, copying, searchText, items, extractedText, textElements>>

NextOverlay == highlightTextInPage

SpecOverlay == InitOverlay /\ [][NextOverlay]_vars

\* The offset in the cleaned text of the character at position i (from 1) of
\* a text, -1 for the whitespace the cleaning trims away: a whitespace run
\* inside the text becomes one space, which all its characters share.
CleanOffset(text, i) ==
    LET kept(j) == ~IsSpace(text[j]) \/ (j > 1 /\ ~IsSpace(text[j - 1]))
        runStart == IF IsSpace(text[i])
                    THEN CHOOSE s \in 1..i :
                             /\ \A j \in s..i : IsSpace(text[j])
                             /\ s = 1 \/ ~IsSpace(text[s - 1])
                    ELSE i
        trailing == \A j \in i..Len(text) : IsSpace(text[j])
    IN  IF IsSpace(text[i]) /\ (runStart = 1 \/ trailing) THEN -1
        ELSE Cardinality({j \in 1..(runStart - 1) : kept(j)})

\* The runs with a character in the stretch from..to of the cleaned page text.
RunsOverlapping(elements, from, to) ==
    {n \in DOMAIN elements :
        \E k \in 1..Len(elements[n]) :
            LET offset == CleanOffset(FullPageText(elements), ElementStart(elements, n) + k)
            IN  from <= offset /\ offset < to}

\* C30: when highlightTextInPage found the cleaned quote in the cleaned page
\* text, the runs with an overlay are exactly the runs that have a character
\* in the stretch of the page text where it was found.
RunLevelExactMatch ==
    (cleanSearchText /= Undefined /\ SearchIndex(textElements, cleanSearchText) /= -1)
    => overlays = RunsOverlapping(textElements,
                                  SearchIndex(textElements, cleanSearchText),
                                  SearchIndex(textElements, cleanSearchText)
                                      + Len(cleanSearchText))

=============================================================================
